---- MODULE Spec2Model ----
(***************************************************************************)
(* A model of note.py (wsw70/note): a command-line note tool that keeps    *)
(* one text file per note and a JSON index, db.json, mapping each note's   *)
(* file name to its metadata (title, tags, serial, modified).              *)
(*                                                                         *)
(* Strings are sequences of one-character strings, so that split, join,    *)
(* replace, lower, substring tests, the title pattern and the checksum are *)
(* computed on characters as the code computes them.                       *)
(***************************************************************************)
EXTENDS Integers, Sequences, FiniteSets, TLC

VARIABLES
    dbfile,   \* db.json: [st |-> "missing" | "corrupt" | "ok", db |-> the mapping]
    files,    \* the working directory: path |-> content (db.json apart)
    now,      \* the wall clock
    last,     \* what the last run of the program was given, did and printed
    deleted,  \* history: the file names whose record a delete run removed
    freed,    \* history: the serials those records held, by file name
    procs     \* concurrent runs: where each process is in its delete_note

vars == <<dbfile, files, now, last, deleted, freed, procs>>

----------------------------------------------------------------------------
(* Bounds of the model *)

\* The number of saves (runs of update_db) in one behaviour.
MaxTime == 3
\* The number of note files ever created.
MaxNotes == 2
\* The number of answers the user gives to one selection prompt loop.
MaxPrompts == 2

----------------------------------------------------------------------------
(* Characters and strings *)

Range(s) == {s[i] : i \in DOMAIN s}

Max(S) == CHOOSE x \in S : \A y \in S : y <= x

\* Every permutation of a finite set, as a sequence.
Perms(S) ==
    {s \in [1..Cardinality(S) -> S] : \A i, j \in DOMAIN s : i # j => s[i] # s[j]}

\* str.split() with no argument splits on runs of these.
Whitespace == {" ", "\t", "\n"}

\* ord() of the characters the model uses.
Ord ==
    (" " :> 32) @@ ("\t" :> 9) @@ ("\n" :> 10) @@ ("#" :> 35) @@ ("$" :> 36) @@
    ("." :> 46) @@ ("/" :> 47) @@ ("0" :> 48) @@ ("1" :> 49) @@ ("2" :> 50) @@
    ("3" :> 51) @@ ("4" :> 52) @@ ("5" :> 53) @@ ("6" :> 54) @@ ("7" :> 55) @@
    ("8" :> 56) @@ ("9" :> 57) @@ ("@" :> 64) @@ ("A" :> 65) @@ ("B" :> 66) @@
    ("a" :> 97) @@ ("b" :> 98) @@ ("c" :> 99) @@ ("f" :> 102) @@ ("k" :> 107) @@
    ("m" :> 109) @@ ("t" :> 116) @@ ("x" :> 120)

Digits == <<"0", "1", "2", "3", "4", "5", "6", "7", "8", "9">>

UpperToLower == ("A" :> "a") @@ ("B" :> "b")

\* str.lower()
lower(s) ==
    [i \in 1..Len(s) |-> IF s[i] \in DOMAIN UpperToLower THEN UpperToLower[s[i]] ELSE s[i]]

RECURSIVE split_loop(_, _, _)
split_loop(s, cur, acc) ==
    IF s = <<>>
    THEN IF cur = <<>> THEN acc ELSE Append(acc, cur)
    ELSE IF Head(s) \in Whitespace
         THEN split_loop(Tail(s), <<>>, IF cur = <<>> THEN acc ELSE Append(acc, cur))
         ELSE split_loop(Tail(s), Append(cur, Head(s)), acc)

\* str.split(): the maximal runs of non-whitespace characters, in order.
split(s) == split_loop(s, <<>>, <<>>)

RECURSIVE join(_, _)
\* sep.join(words)
join(sep, words) ==
    IF words = <<>> THEN <<>>
    ELSE IF Len(words) = 1 THEN words[1]
    ELSE words[1] \o sep \o join(sep, Tail(words))

\* sub in s
contains(sub, s) ==
    \E i \in 1..(Len(s) - Len(sub) + 1) : SubSeq(s, i, i + Len(sub) - 1) = sub

RECURSIVE replace(_, _)
\* s.replace(old, ''), old not empty: every occurrence, scanning from the left.
replace(s, old) ==
    IF Len(s) < Len(old) THEN s
    ELSE IF SubSeq(s, 1, Len(old)) = old
         THEN replace(SubSeq(s, Len(old) + 1, Len(s)), old)
         ELSE <<Head(s)>> \o replace(Tail(s), old)

RECURSIVE str(_)
\* str(n) of a natural number
str(n) == IF n < 10 THEN <<Digits[n + 1]>> ELSE str(n \div 10) \o <<Digits[(n % 10) + 1]>>

DigitValue(c) == CHOOSE d \in 0..9 : Digits[d + 1] = c

RECURSIVE int_loop(_, _)
int_loop(s, acc) ==
    IF s = <<>> THEN acc ELSE int_loop(Tail(s), 10 * acc + DigitValue(Head(s)))

\* int(s) raises ValueError unless s is a numeral (the model's numerals are
\* unsigned runs of decimal digits).
int_ok(s) == s # <<>> /\ \A i \in DOMAIN s : s[i] \in Range(Digits)
int(s) == int_loop(s, 0)

\* zlib.adler32: two 16-bit sums modulo the largest prime below 2^16.
ADLER_BASE == 65521

RECURSIVE adler32_loop(_, _, _)
adler32_loop(s, a, b) ==
    IF s = <<>> THEN b * 65536 + a
    ELSE LET a2 == (a + Ord[Head(s)]) % ADLER_BASE
         IN  adler32_loop(Tail(s), a2, (b + a2) % ADLER_BASE)

adler32(s) == adler32_loop(s, 1, 0)

----------------------------------------------------------------------------
(* The index: a dict, which keeps insertion order, as a sequence of        *)
(* [key, value] entries with distinct keys.                                *)

keys(db) == {db[i].key : i \in DOMAIN db}

getitem(db, k) == (CHOOSE i \in DOMAIN db : db[i].key = k)

value_of(db, k) == db[getitem(db, k)].value

\* db[k] = v: in place when k is a key, at the end otherwise.
setitem(db, k, v) ==
    IF k \in keys(db)
    THEN [db EXCEPT ![getitem(db, k)] = [key |-> k, value |-> v]]
    ELSE Append(db, [key |-> k, value |-> v])

\* Mutant of pop: the entry stays.
pop_keeping(db, k) == db

\* db.pop(k), k a key
pop(db, k) == SelectSeq(db, LAMBDA e : e.key # k)

\* DB.__init__: the mapping of db.json; a missing or unparseable file is an
\* empty mapping (and a warning).
DB_init(file) == IF file.st = "ok" THEN file.db ELSE <<>>

\* Mutant of DB_exit: every session writes.
DB_exit_always(write, db, file) == [st |-> "ok", db |-> db]

\* Mutant of DB_exit: the write keeps the records that db.json holds and
\* the mapping lacks.
DB_exit_merging(write, db, file) ==
    IF write
    THEN [st |-> "ok",
          db |-> db \o SelectSeq(DB_init(file), LAMBDA e : e.key \notin keys(db))]
    ELSE file

\* DB.__exit__: a session opened with write=True overwrites db.json with the
\* whole mapping, whether or not the body raised; it never swallows the
\* exception.
DB_exit(write, db, file) == IF write THEN [st |-> "ok", db |-> db] ELSE file

----------------------------------------------------------------------------
(* editor and its update_db *)

\* The tags of a note's text: every whitespace-separated token that starts
\* with '#', without that '#', lowercased; a set.
extract_tags(content) ==
    {lower(Tail(tok)) : tok \in {w \in Range(split(content)) : Head(w) = "#"}}

\* list(tags): the order in which a set of strings is iterated follows the
\* process's string hashing; `order`, a sequence holding every tag once,
\* stands for it.
list_of(tags, order) == SelectSeq(order, LAMBDA tag : tag \in tags)

\* Mutant of get_serial: the existing serial is not looked up.
get_serial_always_next(db, filename) ==
    IF db # <<>> THEN Max({db[i].value.serial : i \in DOMAIN db}) + 1 ELSE 1

\* Mutant of get_serial: the serials of an empty index start from 0.
get_serial_from_zero(db, filename) ==
    IF filename \in keys(db) THEN value_of(db, filename).serial
    ELSE IF db # <<>> THEN Max({db[i].value.serial : i \in DOMAIN db}) + 1
    ELSE 0

\* The serial update_db gives filename: the one its record has, else one
\* more than the largest serial of the index, else 1.
get_serial(db, filename) ==
    IF filename \in keys(db) THEN value_of(db, filename).serial
    ELSE IF db # <<>> THEN Max({db[i].value.serial : i \in DOMAIN db}) + 1
    ELSE 1

\* arrow.now() in update_db, in a run started at time t: later than every
\* earlier save.
save_time(t) == t + 1

\* Mutant of new_record: the tags of the previous record are kept.
new_record_keeping_tags(db, filename, title, content, t, order) ==
    [filename |-> filename,
     tags     |-> list_of(extract_tags(content) \cup
                          (IF filename \in keys(db)
                           THEN Range(value_of(db, filename).tags) ELSE {}), order),
     modified |-> save_time(t),
     title    |-> title,
     serial   |-> get_serial(db, filename)]

\* The record update_db stores.
new_record(db, filename, title, content, t, order) ==
    [filename |-> filename,
     tags     |-> list_of(extract_tags(content), order),
     modified |-> save_time(t),
     title    |-> title,
     serial   |-> get_serial(db, filename)]

\* Mutant of update_db: the record is stored under the note's title.
update_db_by_title(file, fs, filename, title, t, order) ==
    LET db == DB_init(file)
    IN  IF filename \notin DOMAIN fs
        THEN [dbfile |-> DB_exit(TRUE, db, file), exc |-> "FileNotFoundError"]
        ELSE [dbfile |-> DB_exit(TRUE,
                                 setitem(db, title,
                                         new_record(db, filename, title, fs[filename], t, order)),
                                 file),
              exc |-> "none"]

\* editor.update_db: one writing session.
update_db(file, fs, filename, title, t, order) ==
    LET db == DB_init(file)
    IN  IF filename \notin DOMAIN fs
        THEN [dbfile |-> DB_exit(TRUE, db, file), exc |-> "FileNotFoundError"]
        ELSE [dbfile |-> DB_exit(TRUE,
                                 setitem(db, filename,
                                         new_record(db, filename, title, fs[filename], t, order)),
                                 file),
              exc |-> "none"]

\* Mutant of changed: the checksums are not compared.
changed_always(crc_before, crc_after) == TRUE

\* Whether editor runs update_db after the editor has exited.
changed(crc_before, crc_after) == crc_before # crc_after

\* editor(filename, title, use_editor): `edited` is the text the user leaves
\* in the file when the editor exits. crc_same: the two checksums are equal;
\* retyped: the text is not the one the editor was started on.
editor(file, fs, filename, title, use_editor, edited, t, order) ==
    IF use_editor
    THEN IF filename \notin DOMAIN fs
         THEN [dbfile |-> file, files |-> fs, exc |-> "FileNotFoundError",
               editor |-> FALSE, crc_same |-> FALSE, retyped |-> FALSE, updated |-> FALSE]
         ELSE LET crc  == adler32(fs[filename])
                  fs2  == [fs EXCEPT ![filename] = edited]
                  crc2 == adler32(fs2[filename])
                  u    == update_db(file, fs2, filename, title, t, order)
              IN  IF changed(crc, crc2)
                  THEN [dbfile |-> u.dbfile, files |-> fs2, exc |-> u.exc,
                        editor |-> TRUE, crc_same |-> crc = crc2,
                        retyped |-> edited # fs[filename], updated |-> TRUE]
                  ELSE [dbfile |-> file, files |-> fs2, exc |-> "none",
                        editor |-> TRUE, crc_same |-> crc = crc2,
                        retyped |-> edited # fs[filename], updated |-> FALSE]
    ELSE LET u == update_db(file, fs, filename, title, t, order)
         IN  [dbfile |-> u.dbfile, files |-> fs, exc |-> u.exc,
              editor |-> FALSE, crc_same |-> FALSE, retyped |-> FALSE, updated |-> TRUE]

----------------------------------------------------------------------------
(* Lookups and the listing: reading sessions *)

Min(S) == CHOOSE x \in S : \A y \in S : x <= y

\* Mutant of get_filename_and_title_from_serial: the title handed back is
\* the serial as typed.
get_filename_and_title_from_serial_typed(file, serial) ==
    LET db   == DB_init(file)
        hits == {i \in DOMAIN db : db[i].value.serial = serial}
    IN  [dbfile   |-> DB_exit(FALSE, db, file),
         filename |-> IF hits = {} THEN <<>> ELSE db[Min(hits)].key,
         title    |-> IF hits = {} THEN <<>> ELSE <<"$">> \o str(serial)]

\* ask_for_note.get_filename_and_title_from_serial: the first record, in
\* index order, with that serial; '' when there is none.
get_filename_and_title_from_serial(file, serial) ==
    LET db   == DB_init(file)
        hits == {i \in DOMAIN db : db[i].value.serial = serial}
    IN  [dbfile   |-> DB_exit(FALSE, db, file),
         filename |-> IF hits = {} THEN <<>> ELSE db[Min(hits)].key,
         title    |-> IF hits = {} THEN <<>> ELSE db[Min(hits)].value.title]

\* get_filename_from_title (of ask_for_note and of edit_note): the first
\* record, in index order, with exactly that title; '' when there is none.
get_filename_from_title(file, title) ==
    LET db   == DB_init(file)
        hits == {i \in DOMAIN db : db[i].value.title = title}
    IN  [dbfile   |-> DB_exit(FALSE, db, file),
         filename |-> IF hits = {} THEN <<>> ELSE db[Min(hits)].key]

\* One row of list_notes' table; humanize() shows the age of the record.
list_row(v, t) ==
    [serial   |-> <<"$">> \o str(v.serial),
     title    |-> v.title,
     tags     |-> join(<<" ">>, v.tags),
     modified |-> t - v.modified]

\* list_notes: one row per record, in index order.
list_notes(file, t) ==
    LET db == DB_init(file)
    IN  [dbfile |-> DB_exit(FALSE, db, file),
         data   |-> [i \in DOMAIN db |-> list_row(db[i].value, t)]]

RECURSIVE ask_for_note_loop(_, _, _)
\* The loop of ask_for_note over the answers typed; "pending" when every
\* answer given was asked again.
ask_for_note_loop(file, ins, n) ==
    IF ins = <<>>
    THEN [dbfile |-> file, filename |-> <<>>, title |-> <<>>,
          status |-> "pending", prompts |-> n]
    ELSE LET i == Head(ins)
         IN  IF i = <<>>
             THEN [dbfile |-> file, filename |-> <<>>, title |-> <<>>,
                   status |-> "abort", prompts |-> n + 1]
             ELSE IF Head(i) = "$"
             THEN IF ~int_ok(Tail(i))
                  THEN [dbfile |-> file, filename |-> <<>>, title |-> <<>>,
                        status |-> "ValueError", prompts |-> n + 1]
                  ELSE LET r == get_filename_and_title_from_serial(file, int(Tail(i)))
                       IN  IF r.filename # <<>>
                           THEN [dbfile |-> r.dbfile, filename |-> r.filename,
                                 title |-> r.title, status |-> "ok", prompts |-> n + 1]
                           ELSE ask_for_note_loop(r.dbfile, Tail(ins), n + 1)
             ELSE LET r == get_filename_from_title(file, i)
                  IN  IF r.filename # <<>>
                      THEN [dbfile |-> r.dbfile, filename |-> r.filename,
                            title |-> i, status |-> "ok", prompts |-> n + 1]
                      ELSE ask_for_note_loop(r.dbfile, Tail(ins), n + 1)

ask_for_note(file, ins) == ask_for_note_loop(file, ins, 0)

----------------------------------------------------------------------------
(* What a run reports: the inputs it consumed and what it did *)

Obs(op, args) ==
    [op |-> op, args |-> args, exc |-> "none", filename |-> <<>>, title |-> <<>>,
     asked_title |-> FALSE, listed |-> FALSE, data |-> <<>>,
     editor |-> FALSE, crc_same |-> FALSE, retyped |-> FALSE, updated |-> FALSE,
     warned |-> FALSE]

\* The report of a run that ended in editor(...), whose result is e.
WithEditor(obs, filename, title, e) ==
    [obs EXCEPT !.filename = filename, !.title = title, !.exc = e.exc,
                !.editor = e.editor, !.crc_same = e.crc_same, !.retyped = e.retyped,
                !.updated = e.updated]

\* The texts a user may leave in the file when the editor exits; "aca" and
\* "bab" have the same Adler-32 checksum.
EditorTexts ==
    << <<"a", "c", "a">>,
       <<"b", "a", "b">>,
       <<"#", "a", " ", "#", "A", "\n", "#", "b">> >>

\* The user's editing: choice 0 leaves the file as it is.
user_edit(content, choice) == IF choice = 0 THEN content ELSE EditorTexts[choice]

----------------------------------------------------------------------------
(* new_note *)

\* new_note.ask_for_title: the answer, or a title made of the current time.
default_title(t) == <<"@">> \o str(t)
ask_for_title(answer, t) == IF answer # <<>> THEN answer ELSE default_title(t)

\* Mutant of title_match: a greedy pattern, up to the last '/'.
title_match_greedy(content_str) ==
    LET slashes == {i \in DOMAIN content_str : content_str[i] = "/"}
    IN  IF Cardinality(slashes) < 2 THEN <<>>
        ELSE SubSeq(content_str, Min(slashes), Max(slashes))

\* re.findall(r"^[^\/]*(\/.*?\/)?.*$", content_str)[0] on one line of text:
\* from the first '/' to the second '/', both included; '' when content_str
\* has fewer than two '/'.
title_match(content_str) ==
    LET slashes == {i \in DOMAIN content_str : content_str[i] = "/"}
    IN  IF Cardinality(slashes) < 2 THEN <<>>
        ELSE SubSeq(content_str, Min(slashes), Min(slashes \ {Min(slashes)}))

\* The n-th token uuid.uuid4().hex yields; no two are equal.
uuid4_hex(n) == <<"f">> \o str(n)

\* Mutant of new: the record is stored as soon as the file is written.
new_saving_first(obs, file, fs, title, content_str, use_editor, choice, t, order) ==
    LET filename == uuid4_hex(Cardinality(DOMAIN fs) + 1)
        fs2 == (filename :> content_str) @@ fs
        u   == update_db(file, fs2, filename, title, t, order)
        e   == editor(u.dbfile, fs2, filename, title, use_editor,
                      user_edit(content_str, IF use_editor THEN choice ELSE 0), t, order)
    IN  [dbfile |-> e.dbfile, files |-> e.files,
         obs |-> WithEditor(obs, filename, title, e)]

\* new_note.new: write the file, then editor(...).
new(obs, file, fs, title, content_str, use_editor, choice, t, order) ==
    LET filename == uuid4_hex(Cardinality(DOMAIN fs) + 1)
        fs2 == (filename :> content_str) @@ fs
        e   == editor(file, fs2, filename, title, use_editor,
                      user_edit(content_str, IF use_editor THEN choice ELSE 0), t, order)
    IN  [dbfile |-> e.dbfile, files |-> e.files,
         obs |-> WithEditor(obs, filename, title, e)]

\* What new_note keeps of the command line once the title is taken out.
strip_title(content_str, match) == join(<<" ">>, split(replace(content_str, match)))

new_note(file, fs, content, answer, choice, t, order) ==
    LET content_str == join(<<" ">>, content)
        match == title_match(content_str)
        rest  == strip_title(content_str, match)
        obs   == Obs("new", content)
        asked == [obs EXCEPT !.asked_title = TRUE]
    IN  IF content_str # <<>>
        THEN IF match # <<>>
             THEN IF rest # <<>>
                  THEN new(obs, file, fs, SubSeq(match, 2, Len(match) - 1), rest, FALSE,
                           choice, t, order)
                  ELSE new(obs, file, fs, SubSeq(match, 2, Len(match) - 1), <<>>, TRUE,
                           choice, t, order)
             ELSE new(asked, file, fs, ask_for_title(answer, t), <<>>, FALSE,
                      choice, t, order)
        ELSE new(asked, file, fs, ask_for_title(answer, t), <<>>, TRUE, choice, t, order)

----------------------------------------------------------------------------------------------------------------------------------------
(* edit_note *)

\* The selection of edit_note: the note titled by the command line, else
\* the listing and the prompt.
edit_select(file, args, ins, t) ==
    LET title == join(<<" ">>, args)
        r == get_filename_from_title(file, title)
        l == list_notes(r.dbfile, t)
        a == ask_for_note(l.dbfile, ins)
    IN  IF r.filename # <<>>
        THEN [dbfile |-> r.dbfile, filename |-> r.filename, title |-> title,
              status |-> "ok", prompts |-> 0, listed |-> FALSE, data |-> <<>>]
        ELSE [dbfile |-> a.dbfile, filename |-> a.filename, title |-> a.title,
              status |-> a.status, prompts |-> a.prompts, listed |-> TRUE, data |-> l.data]

\* The report of a run after its selection sel.
Selected(obs, sel) ==
    [obs EXCEPT !.listed = sel.listed, !.data = sel.data,
                !.exc = IF sel.status \in {"ok", "abort", "pending"} THEN "none"
                        ELSE sel.status]

\* The end of edit_note and of search_note: editor(...) on a selected note.
edit_selected(obs, sel, fs, choice, t, order) ==
    IF sel.status = "ok"
    THEN LET e == editor(sel.dbfile, fs, sel.filename, sel.title, TRUE,
                         user_edit(fs[sel.filename], choice), t, order)
         IN  [dbfile |-> e.dbfile, files |-> e.files,
              obs |-> WithEditor(Selected(obs, sel), sel.filename, sel.title, e)]
    ELSE [dbfile |-> sel.dbfile, files |-> fs, obs |-> Selected(obs, sel)]

edit_note(file, fs, args, ins, choice, t, order) ==
    edit_selected(Obs("edit", <<>>), edit_select(file, args, ins, t), fs, choice, t, order)

----------------------------------------------------------------------------
(* delete_note *)

\* The key the "remove from tags" loop of remove_filename_from_db reads.
TagsKey == <<"t", "a", "g", "s">>

BackupSuffix == <<".", "b", "a", "k">>

\* What the "remove from tags" loop does on mapping db: db['tags'] raises
\* KeyError when 'tags' is no key; when it is one, its value is a note
\* record, the loop takes its first field and calls .remove on a string.
remove_from_tags(db) == IF TagsKey \in keys(db) THEN "AttributeError" ELSE "KeyError"

\* Mutant of remove_filename_from_db: the session is not opened for writing.
remove_filename_from_db_unwritten(file, filename) ==
    LET db  == DB_init(file)
        has == filename \in keys(db)
        db2 == IF has THEN pop(db, filename) ELSE db
    IN  [dbfile |-> DB_exit(FALSE, db2, file), exc |-> remove_from_tags(db2),
         warned |-> ~has, removed |-> has]

\* delete_note.remove_filename_from_db: one writing session. A missing key
\* is logged; the exception of the tags loop leaves the session through
\* DB.__exit__, which writes the mapping, and goes on to the caller.
remove_filename_from_db(file, filename) ==
    LET db  == DB_init(file)
        has == filename \in keys(db)
        db2 == IF has THEN pop(db, filename) ELSE db
    IN  [dbfile |-> DB_exit(TRUE, db2, file), exc |-> remove_from_tags(db2),
         warned |-> ~has, removed |-> has]

\* os.rename(src, dst)
rename(fs, src, dst) ==
    [p \in (DOMAIN fs \ {src}) \cup {dst} |-> IF p = dst THEN fs[src] ELSE fs[p]]

\* The selection of delete_note: the listing and the prompt.
delete_select(file, ins, t) ==
    LET l == list_notes(file, t)
        a == ask_for_note(l.dbfile, ins)
    IN  [dbfile |-> a.dbfile, filename |-> a.filename, title |-> a.title,
         status |-> a.status, prompts |-> a.prompts, listed |-> TRUE, data |-> l.data]

\* The end of delete_note: the record is removed, then the file renamed.
delete_selected(obs, sel, fs) ==
    LET r    == remove_filename_from_db(sel.dbfile, sel.filename)
        obs2 == [Selected(obs, sel) EXCEPT !.filename = sel.filename, !.warned = r.warned]
    IN  IF sel.status # "ok"
        THEN [dbfile |-> sel.dbfile, files |-> fs, obs |-> Selected(obs, sel),
              removed |-> FALSE]
        ELSE IF r.exc # "none"
        THEN [dbfile |-> r.dbfile, files |-> fs, obs |-> [obs2 EXCEPT !.exc = r.exc],
              removed |-> r.removed]
        ELSE IF sel.filename \notin DOMAIN fs
        THEN [dbfile |-> r.dbfile, files |-> fs,
              obs |-> [obs2 EXCEPT !.exc = "FileNotFoundError"], removed |-> r.removed]
        ELSE [dbfile |-> r.dbfile,
              files |-> rename(fs, sel.filename, sel.filename \o BackupSuffix),
              obs |-> obs2, removed |-> r.removed]

delete_note(file, fs, ins, t) ==
    delete_selected(Obs("delete", <<>>), delete_select(file, ins, t), fs)

----------------------------------------------------------------------------
(* search_note *)

\* The test of search_note on one record.
matches(keywords, v) ==
    \E n \in DOMAIN keywords :
        contains(keywords[n], v.title) \/ contains(keywords[n], join(<<" ">>, v.tags))

\* The set `found` of search_note.
search_found(db, keywords) ==
    {db[i].key : i \in {j \in DOMAIN db : matches(keywords, db[j].value)}}

\* The table of search_note: for every record of `found` its comprehension
\* subscripts the key, a string, with 'modified', which raises TypeError.
search_data(db, found) ==
    IF \E i \in DOMAIN db : db[i].key \in found
    THEN [exc |-> "TypeError", data |-> <<>>]
    ELSE [exc |-> "none", data |-> <<>>]

\* The selection of search_note: the table of the matches, then the prompt.
search_select(file, keywords, ins) ==
    LET db    == DB_init(file)
        d     == search_data(db, search_found(db, keywords))
        file2 == DB_exit(FALSE, db, file)
        a     == ask_for_note(file2, ins)
    IN  IF d.exc # "none"
        THEN [dbfile |-> file2, filename |-> <<>>, title |-> <<>>, status |-> d.exc,
              prompts |-> 0, listed |-> FALSE, data |-> <<>>]
        ELSE [dbfile |-> a.dbfile, filename |-> a.filename, title |-> a.title,
              status |-> a.status, prompts |-> a.prompts, listed |-> TRUE, data |-> d.data]

search_note(file, fs, keywords, ins, choice, t, order) ==
    edit_selected(Obs("search", keywords), search_select(file, keywords, ins), fs,
                  choice, t, order)

----------------------------------------------------------------------------
(* The inputs of the runs *)

\* Command lines of `note n`: the arguments after the selector.
CommandLines ==
    { <<>>,
      << <<"b">>, <<"#", "a">> >>,
      << <<"b">>, <<"#", "A">>, <<"/", "t", "/">> >>,
      << <<"/", "t", "/">> >>,
      << <<"/", "t", "/">>, <<"x", " ", " ", "#", "b">>, <<"/", "t", "/">> >>,
      << <<"/", "t", "/">>, <<"/", "t", "/">> >> }

\* Answers to "Provide title or press enter for timestamp".
TitleAnswers == { <<>>, <<"m">> }

\* Command lines of `note e`.
EditLines == { <<>>, << <<"t">> >> }

\* Command lines of `note s`.
SearchLines == { << <<"t">> >>, << <<"x">>, <<"b">> >> }

\* Answers to "Note title, or $serial, or <Enter> to abort".
Answers == { <<>>, <<"$", "1">>, <<"$", "2">>, <<"$", "x">>, <<"m">> }

\* The answers typed in one run: at most MaxPrompts of them.
AnswerSeqs == UNION {[1..n -> Answers] : n \in 0..MaxPrompts}

EditChoices == 0..Len(EditorTexts)

\* Every text a quick note can hold, and every tag a record can hold.
QuickBodies ==
    {LET cs == join(<<" ">>, c)
     IN  IF title_match(cs) = <<>> THEN <<>> ELSE strip_title(cs, title_match(cs)) :
     c \in CommandLines}
AllTags == UNION {extract_tags(c) : c \in Range(EditorTexts) \cup QuickBodies}
HashOrders == Perms(AllTags)

\* The hash orders that tell apart the tag lists of a text.
OrdersFor(content) ==
    IF Cardinality(extract_tags(content)) < 2
    THEN {CHOOSE o \in HashOrders : TRUE}
    ELSE HashOrders

\* The text new_note writes to the new file.
new_body(content) ==
    LET cs == join(<<" ">>, content)
    IN  IF title_match(cs) = <<>> THEN <<>> ELSE strip_title(cs, title_match(cs))

----------------------------------------------------------------------------
(* The runs of the program, one at a time. A run reads only some of its    *)
(* inputs: the actions enumerate the inputs the run reads.                 *)

NoFiles == [p \in {} |-> <<>>]

\* The processes of the concurrent specification, and a process between runs.
Procs == {"p1", "p2"}
Idle == [pc |-> "idle", filename |-> <<>>, title |-> <<>>, data |-> <<>>]

Init ==
    /\ dbfile \in {[st |-> "missing", db |-> <<>>], [st |-> "corrupt", db |-> <<>>]}
    /\ files = NoFiles
    /\ now = 0
    /\ last = Obs("init", <<>>)
    /\ deleted = {}
    /\ freed = {}
    /\ procs = [p \in Procs |-> Idle]

\* What a delete run frees: the serial of the record it removes.
Freed(file, filename) ==
    [filename |-> filename, serial |-> value_of(DB_init(file), filename).serial]

Run(r) ==
    /\ dbfile' = r.dbfile
    /\ files' = r.files
    /\ last' = r.obs
    /\ now' = IF r.obs.updated THEN save_time(now) ELSE now

\* note n ...
NewNote ==
    \E content \in CommandLines :
        /\ now < MaxTime
        /\ Cardinality(DOMAIN files) < MaxNotes
        /\ \E answer \in IF title_match(join(<<" ">>, content)) = <<>>
                         THEN TitleAnswers ELSE {<<>>} :
           \E choice \in IF new_body(content) = <<>> /\ (content = <<>> \/ title_match(join(<<" ">>, content)) # <<>>)
                         THEN EditChoices ELSE {0} :
           \E order \in OrdersFor(user_edit(new_body(content), choice)) :
               Run(new_note(dbfile, files, content, answer, choice, now, order))
        /\ UNCHANGED <<deleted, freed, procs>>

\* note e ...
EditNote ==
    \E args \in EditLines, ins \in AnswerSeqs :
        LET sel == edit_select(dbfile, args, ins, now)
        IN  /\ now < MaxTime
            /\ sel.prompts = Len(ins)
            /\ sel.status # "pending"
            /\ \E choice \in IF sel.status = "ok" THEN EditChoices ELSE {0} :
               \E order \in IF sel.status = "ok"
                            THEN OrdersFor(user_edit(files[sel.filename], choice))
                            ELSE OrdersFor(<<>>) :
                   Run(edit_note(dbfile, files, args, ins, choice, now, order))
            /\ UNCHANGED <<deleted, freed, procs>>

\* note d
DeleteNote ==
    \E ins \in AnswerSeqs :
        LET sel == delete_select(dbfile, ins, now)
            r   == delete_note(dbfile, files, ins, now)
        IN  /\ now < MaxTime
            /\ sel.prompts = Len(ins)
            /\ sel.status # "pending"
            /\ Run(r)
            /\ deleted' = IF r.removed THEN deleted \cup {r.obs.filename} ELSE deleted
            /\ freed' = IF r.removed THEN freed \cup {Freed(dbfile, r.obs.filename)} ELSE freed
            /\ UNCHANGED procs

\* note s ...
SearchNote ==
    \E keywords \in SearchLines, ins \in AnswerSeqs :
        LET sel == search_select(dbfile, keywords, ins)
        IN  /\ now < MaxTime
            /\ sel.prompts = Len(ins)
            /\ sel.status # "pending"
            /\ \E choice \in IF sel.status = "ok" THEN EditChoices ELSE {0} :
               \E order \in IF sel.status = "ok"
                            THEN OrdersFor(user_edit(files[sel.filename], choice))
                            ELSE OrdersFor(<<>>) :
                   Run(search_note(dbfile, files, keywords, ins, choice, now, order))
            /\ UNCHANGED <<deleted, freed, procs>>

Next == NewNote \/ EditNote \/ DeleteNote \/ SearchNote

Spec == Init /\ [][Next]_vars

--------------------------------------------------------------------------------------------------------------------------------------------
(* Two processes at once: db.json and the files are shared and nothing     *)
(* locks them. delete_note is taken session by session: its selection (the *)
(* reading sessions of the listing and of the prompt), then its removal    *)
(* (the writing session, then the rename).                                 *)

\* Command lines of quick notes with a title.
QuickLines ==
    { << <<"b">>, <<"#", "A">>, <<"/", "t", "/">> >>,
      << <<"/", "t", "/">>, <<"x", " ", " ", "#", "b">>, <<"/", "t", "/">> >> }

\* note n <quick note>, by one of the processes between its runs.
QuickNote(p) ==
    \E content \in QuickLines :
        /\ procs[p].pc = "idle"
        /\ now < MaxTime
        /\ Cardinality(DOMAIN files) < MaxNotes
        /\ \E order \in OrdersFor(new_body(content)) :
               Run(new_note(dbfile, files, content, <<>>, 0, now, order))
        /\ UNCHANGED <<deleted, freed, procs>>

\* note d, up to the answer to the prompt.
DeleteSelect(p) ==
    \E ins \in AnswerSeqs :
        LET sel == delete_select(dbfile, ins, now)
        IN  /\ procs[p].pc = "idle"
            /\ now < MaxTime
            /\ Len(ins) = sel.prompts
            /\ sel.status # "pending"
            /\ dbfile' = sel.dbfile
            /\ last' = Selected(Obs("delete", <<>>), sel)
            /\ procs' = [procs EXCEPT ![p] =
                            IF sel.status = "ok"
                            THEN [pc |-> "selected", filename |-> sel.filename,
                                  title |-> sel.title, data |-> sel.data]
                            ELSE Idle]
            /\ UNCHANGED <<files, now, deleted, freed>>

\* note d, from the resolved file name on.
DeleteRemove(p) ==
    LET sel == [dbfile |-> dbfile, filename |-> procs[p].filename,
                title |-> procs[p].title, status |-> "ok", prompts |-> 1,
                listed |-> TRUE, data |-> procs[p].data]
        r   == delete_selected(Obs("delete", <<>>), sel, files)
    IN  /\ procs[p].pc = "selected"
        /\ Run(r)
        /\ deleted' = IF r.removed THEN deleted \cup {r.obs.filename} ELSE deleted
        /\ freed' = IF r.removed THEN freed \cup {Freed(dbfile, r.obs.filename)} ELSE freed
        /\ procs' = [procs EXCEPT ![p] = Idle]

NextConc == \E p \in Procs : QuickNote(p) \/ DeleteSelect(p) \/ DeleteRemove(p)

SpecConc == Init /\ [][NextConc]_vars

----------------------------------------------------------------------------
(* Two processes at once, session by session: a writing session is taken   *)
(* in three steps, DB.__init__ (the load), the body of the with block and  *)
(* DB.__exit__ (the write), and the steps of the two processes interleave. *)

\* Mutant of DB_session: a missing or invalid db.json is created at load.
DB_session_creating(write, file) ==
    [write |-> write, db |-> DB_init(file),
     file |-> IF file.st = "ok" THEN file ELSE [st |-> "ok", db |-> <<>>],
     writes |-> IF file.st = "ok" THEN 0 ELSE 1]

\* DB(write): the object after __init__, which reads db.json and writes
\* nothing. writes: how many times db.json was opened for writing.
DB_session(write, file) ==
    [write |-> write, db |-> DB_init(file), file |-> file, writes |-> 0]

\* The body of update_db's with block on the loaded mapping db.
update_db_body(db, fs, filename, title, t, order) ==
    IF filename \notin DOMAIN fs
    THEN [db |-> db, exc |-> "FileNotFoundError", freed |-> {}]
    ELSE [db |-> setitem(db, filename,
                         new_record(db, filename, title, fs[filename], t, order)),
          exc |-> "none", freed |-> {}]

\* The body of remove_filename_from_db's with block on the loaded mapping db.
remove_filename_from_db_body(db, filename) ==
    LET has == filename \in keys(db)
        db2 == IF has THEN pop(db, filename) ELSE db
    IN  [db |-> db2, exc |-> remove_from_tags(db2),
         freed |-> IF has
                   THEN {[filename |-> filename, serial |-> value_of(db, filename).serial]}
                   ELSE {}]

\* A process inside the writing session of its run.
InSession(op, filename, title, session) ==
    [pc |-> "loaded", op |-> op, filename |-> filename, title |-> title,
     write |-> session.write, db |-> session.db, writes |-> session.writes,
     exc |-> "none", freed |-> {}]

\* The saves still to come from the sessions that are open.
SavesInFlight ==
    Cardinality({q \in Procs : /\ procs[q].pc \in {"loaded"}
                               /\ procs[q].op \in {"new", "edit"}})

\* Answers that select a note by its serial.
SerialAnswers == { << <<"$", "1">> >>, << <<"$", "2">> >> }

\* note n <quick note>, up to the load of update_db's session.
StartNew(p) ==
    \E content \in QuickLines :
        LET content_str == join(<<" ">>, content)
            match    == title_match(content_str)
            filename == uuid4_hex(Cardinality(DOMAIN files) + 1)
            session  == DB_session(TRUE, dbfile)
        IN  /\ procs[p].pc = "idle"
            /\ now + SavesInFlight < MaxTime
            /\ Cardinality(DOMAIN files) < MaxNotes
            /\ files' = (filename :> strip_title(content_str, match)) @@ files
            /\ dbfile' = session.file
            /\ procs' = [procs EXCEPT ![p] =
                            InSession("new", filename, SubSeq(match, 2, Len(match) - 1),
                                      session)]
            /\ UNCHANGED <<now, last, deleted, freed>>

\* note e t, up to the load of update_db's session; a run whose editor
\* leaves the checksum as it was ends without a session.
StartEdit(p) ==
    \E choice \in EditChoices :
        LET sel == edit_select(dbfile, << <<"t">> >>, <<>>, now)
            f   == sel.filename
            fs2 == [files EXCEPT ![f] = user_edit(files[f], choice)]
            session == DB_session(TRUE, sel.dbfile)
        IN  /\ procs[p].pc = "idle"
            /\ now + SavesInFlight < MaxTime
            /\ sel.status = "ok"
            /\ f \in DOMAIN files
            /\ files' = fs2
            /\ IF changed(adler32(files[f]), adler32(fs2[f]))
               THEN /\ dbfile' = session.file
                    /\ procs' = [procs EXCEPT ![p] = InSession("edit", f, sel.title, session)]
                    /\ UNCHANGED last
               ELSE /\ dbfile' = sel.dbfile
                    /\ procs' = [procs EXCEPT ![p] = Idle]
                    /\ last' = [Obs("edit", <<>>) EXCEPT !.filename = f, !.title = sel.title,
                                                         !.editor = TRUE, !.crc_same = TRUE,
                                                         !.retyped = fs2[f] # files[f]]
            /\ UNCHANGED <<now, deleted, freed>>

\* note d, answered by a serial, up to the load of
\* remove_filename_from_db's session.
StartDelete(p) ==
    \E ins \in SerialAnswers :
        LET sel == delete_select(dbfile, ins, now)
            session == DB_session(TRUE, sel.dbfile)
        IN  /\ procs[p].pc = "idle"
            /\ now < MaxTime
            /\ sel.status = "ok"
            /\ dbfile' = session.file
            /\ procs' = [procs EXCEPT ![p] = InSession("delete", sel.filename, sel.title,
                                                       session)]
            /\ UNCHANGED <<files, now, last, deleted, freed>>

\* The body of the with block, on the mapping the process has loaded.
SessionBody(p) ==
    LET me == procs[p]
    IN  /\ me.pc = "loaded"
        /\ IF me.op = "delete"
           THEN LET b == remove_filename_from_db_body(me.db, me.filename)
                IN  /\ procs' = [procs EXCEPT ![p] = [me EXCEPT !.pc = "ready", !.db = b.db,
                                                                !.exc = b.exc,
                                                                !.freed = b.freed]]
                    /\ UNCHANGED now
           ELSE \E order \in IF me.filename \in DOMAIN files
                             THEN OrdersFor(files[me.filename]) ELSE OrdersFor(<<>>) :
                    LET b == update_db_body(me.db, files, me.filename, me.title, now, order)
                    IN  /\ procs' = [procs EXCEPT ![p] = [me EXCEPT !.pc = "ready",
                                                                    !.db = b.db,
                                                                    !.exc = b.exc]]
                        /\ now' = save_time(now)
        /\ UNCHANGED <<dbfile, files, last, deleted, freed>>

\* DB.__exit__, then what the run does after its session: delete_note
\* renames the file unless the session raised.
SessionExit(p) ==
    LET me  == procs[p]
        obs == [Obs(me.op, <<>>) EXCEPT !.filename = me.filename, !.title = me.title,
                                        !.exc = me.exc,
                                        !.updated = me.op \in {"new", "edit"},
                                        !.warned = me.op = "delete" /\ me.freed = {}]
    IN  /\ me.pc = "ready"
        /\ dbfile' = DB_exit(me.write, me.db, dbfile)
        /\ procs' = [procs EXCEPT ![p] =
                        [me EXCEPT !.pc = "idle",
                                   !.writes = me.writes + (IF me.write THEN 1 ELSE 0)]]
        /\ IF me.op = "delete" /\ me.exc = "none"
           THEN IF me.filename \in DOMAIN files
                THEN /\ files' = rename(files, me.filename, me.filename \o BackupSuffix)
                     /\ last' = obs
                ELSE /\ files' = files
                     /\ last' = [obs EXCEPT !.exc = "FileNotFoundError"]
           ELSE /\ files' = files
                /\ last' = obs
        /\ deleted' = deleted \cup {d.filename : d \in me.freed}
        /\ freed' = freed \cup me.freed
        /\ UNCHANGED now

NextSess ==
    \E p \in Procs :
        StartNew(p) \/ StartEdit(p) \/ StartDelete(p) \/ SessionBody(p) \/ SessionExit(p)

SpecSess == Init /\ [][NextSess]_vars

------------
(* Properties *)

\* The persisted index, as the next session would load it.
Index == DB_init(dbfile)

serials(db) == {db[i].value.serial : i \in DOMAIN db}

\* C1: after delete_note on a file name resolved through the prompt, the
\* name is no key of the persisted index, no file is at the original path
\* and a file is at '<filename>.bak'.
C1_DeleteRemovesAndRenames ==
    (last.op = "delete" /\ last.filename # <<>>) =>
        /\ last.filename \notin keys(Index)
        /\ last.filename \notin DOMAIN files
        /\ (last.filename \o BackupSuffix) \in DOMAIN files

\* C2: the first save of a file name that is no key of the index gives it
\* the largest serial of the index plus one (1 in an empty index); a save of
\* a file name that is a key keeps its serial; and no step changes the
\* serial of a record that stays in the index.
C2_SerialAssignedOnceAndKept ==
    [][LET old == DB_init(dbfile)
           idx == DB_init(dbfile')
           f   == last'.filename
       IN  /\ (last'.updated /\ last'.exc = "none") =>
                 /\ f \in keys(idx)
                 /\ f \notin keys(old) =>
                       value_of(idx, f).serial =
                           IF serials(old) = {} THEN 1 ELSE Max(serials(old)) + 1
                 /\ f \in keys(old) => value_of(idx, f).serial = value_of(old, f).serial
           /\ \A g \in keys(old) \cap keys(idx) :
                 value_of(idx, g).serial = value_of(old, g).serial]_vars

\* A record saved a second time, after another note was saved.
C2_Witness ==
    /\ last.op = "edit"
    /\ last.updated
    /\ Len(Index) = 2
    /\ value_of(Index, last.filename).serial = 1
    /\ value_of(Index, last.filename).modified = 3

\* C3: when the file's checksum after the editor exits equals the checksum
\* before, the run leaves db.json as it was.
C3_UnchangedChecksumSkipsUpdate ==
    [][(last'.editor /\ last'.crc_same) => dbfile' = dbfile]_vars

\* An edit of an indexed note that retyped the text into one with the same
\* checksum.
C3_Witness ==
    /\ last.op = "edit"
    /\ last.editor
    /\ last.crc_same
    /\ last.retyped
    /\ last.filename \in keys(Index)

\* The rows search_note is to print: the records some keyword is contained
\* in, by title or by the space-joined tags, in index order.
SearchExpected(db, keywords) ==
    LET hit(e) == \E n \in DOMAIN keywords :
                      \/ contains(keywords[n], e.value.title)
                      \/ contains(keywords[n], join(<<" ">>, e.value.tags))
        hits == SelectSeq(db, hit)
    IN  [i \in DOMAIN hits |-> hits[i].key]

\* C4: search_note prints exactly the matching records, in index order, and
\* goes on to the selection prompt.
C4_SearchListsMatches ==
    [][last'.op = "search" =>
          /\ last'.exc # "TypeError"
          /\ last'.listed
          /\ Len(last'.data) = Len(SearchExpected(DB_init(dbfile), last'.args))]_vars

\* The command line, joined, of the last run.
LastLine == join(<<" ">>, last.args)

Slashes(s) == {i \in DOMAIN s : s[i] = "/"}

\* C5: new_note with command-line content that holds no delimiter pair asks
\* for a title, starts no editor and writes the content as the note's body.
C5_UntitledContentIsTheBody ==
    (last.op = "new" /\ LastLine # <<>> /\ Cardinality(Slashes(LastLine)) < 2) =>
        /\ last.asked_title
        /\ ~last.editor
        /\ files[last.filename] = LastLine

\* The first '/'-delimited substring of s, delimiters included.
Delimited(s) ==
    LET p == CHOOSE i \in Slashes(s) : \A j \in Slashes(s) : i <= j
        q == CHOOSE i \in Slashes(s) \ {p} : \A j \in Slashes(s) \ {p} : i <= j
    IN  SubSeq(s, p, q)

LookupTitles == Answers \cup {Index[i].value.title : i \in DOMAIN Index}

\* C7: once a note is deleted, no lookup by serial, by title or by keyword
\* and no listing gives its file name, while a file of it is on disk.
C7_DeletedStaysInvisible ==
    \A f \in deleted :
        /\ f \notin keys(Index)
        /\ \A n \in 0..(MaxTime + 1) :
               get_filename_and_title_from_serial(dbfile, n).filename # f
        /\ \A title \in LookupTitles : get_filename_from_title(dbfile, title).filename # f
        /\ \A keywords \in SearchLines : f \notin search_found(Index, keywords)
        /\ Len(list_notes(dbfile, now).data) = Cardinality(keys(Index))
        /\ f \in DOMAIN files \/ (f \o BackupSuffix) \in DOMAIN files

\* A note was deleted, then another one was created and saved.
C7_Witness ==
    /\ deleted # {}
    /\ last.op = "new"
    /\ last.updated
    /\ \E f \in deleted : f \in DOMAIN files \/ (f \o BackupSuffix) \in DOMAIN files

\* The tags of a text: tag is one when some maximal run of non-whitespace
\* characters starts with '#' and is tag, lowercased, after that '#'.
TagsOf(content) ==
    {lower(SubSeq(content, i + 1, j)) :
        <<i, j>> \in {ij \in (DOMAIN content) \X (DOMAIN content) :
                        /\ ij[1] <= ij[2]
                        /\ content[ij[1]] = "#"
                        /\ \A k \in ij[1]..ij[2] : content[k] \notin Whitespace
                        /\ ij[1] = 1 \/ content[ij[1] - 1] \in Whitespace
                        /\ ij[2] = Len(content) \/ content[ij[2] + 1] \in Whitespace}}

\* C8: after a save through update_db, the record's tag list holds exactly
\* the tags of the note file's text, each once.
C8_TagsAreThoseOfTheText ==
    (last.updated /\ last.exc = "none") =>
        LET tags == value_of(Index, last.filename).tags
        IN  /\ Range(tags) = TagsOf(files[last.filename])
            /\ Cardinality(Range(tags)) = Len(tags)

\* An edit left '#a #A', a line break and '#b': the record holds a and b.
C8_Witness ==
    /\ last.op = "edit"
    /\ last.updated
    /\ files[last.filename] = EditorTexts[3]
    /\ Range(value_of(Index, last.filename).tags) = {<<"a">>, <<"b">>}

\* A run that only read: no save, and no record removed.
ReadOnlyRun == ~last.updated /\ ~(last.op = "delete" /\ last.filename # <<>>)

\* C10: a run that only lists, looks up or matches keywords leaves db.json
\* as it was, a missing or corrupt db.json included.
C10_ReadOnlyRunsNeverWrite ==
    [][ReadOnlyRun' => dbfile' = dbfile]_vars

\* The listing and an aborted prompt over a corrupt db.json.
C10_Witness ==
    /\ last.op = "delete"
    /\ last.listed
    /\ last.filename = <<>>
    /\ dbfile.st = "corrupt"
    /\ DOMAIN files # {}


\* C9: removing from the index a file name that is no key of it logs a
\* warning and completes without failing, the other records left as they
\* were.
C9_MissingKeyIsOnlyLogged ==
    [][(last'.op = "delete" /\ last'.warned) =>
          /\ last'.exc = "none"
          /\ DB_init(dbfile') = DB_init(dbfile)]_vars

\* C11: in a run that reaches the selection prompt, no answer makes the
\* prompt fail (an answer that resolves to no record, a '$' token that is no
\* integer included, is asked again); a run that ends without a file name
\* changes neither db.json nor any file; and a file name the prompt returns
\* is a key of the index.
C11_PromptReasksOrAborts ==
    [][(last'.op \in {"edit", "delete", "search"} /\ last'.listed) =>
          /\ last'.exc # "ValueError"
          /\ last'.filename = <<>> => (dbfile' = dbfile /\ files' = files)
          /\ last'.filename # <<>> => last'.filename \in keys(DB_init(dbfile))]_vars

\* The run's error was raised inside a writing session: by the tags loop of
\* remove_filename_from_db, or by update_db reading the note file.
SessionError(obs) ==
    \/ obs.op = "delete" /\ obs.exc \in {"KeyError", "AttributeError"}
    \/ obs.updated /\ obs.exc = "FileNotFoundError"

\* C12: a run whose writing session is left by an error leaves db.json as it
\* was before the session.
C12_FailedSessionDoesNotPersist ==
    [][SessionError(last') => dbfile' = dbfile]_vars

\* C15: a delete run frees the serial of the record it removes (no record
\* of the index holds it any more), and when that serial was the largest of
\* the index the next note created, a different file, is given it again.
C15_FreedSerialIsGivenAgain ==
    [][/\ \A d \in freed' \ freed : d.serial \notin serials(DB_init(dbfile'))
       /\ \A d \in freed :
             (/\ last.op = "delete" /\ last.filename = d.filename
              /\ last'.op = "new" /\ last'.updated /\ last'.exc = "none"
              /\ \A n \in serials(DB_init(dbfile)) : n < d.serial) =>
                 /\ last'.filename # d.filename
                 /\ value_of(DB_init(dbfile'), last'.filename).serial = d.serial]_vars

\* A note created after a delete holds the serial of the deleted note, whose
\* file is still on disk.
C15_Witness ==
    /\ last.op = "new"
    /\ last.updated
    /\ \E d \in freed :
          /\ d.filename # last.filename
          /\ d.filename \in deleted
          /\ d.filename \in DOMAIN files
          /\ d.filename \notin keys(Index)
          /\ value_of(Index, last.filename).serial = d.serial

\* C16: every record of the persisted index holds a positive integer as its
\* serial, and no two records hold the same one.
C16_SerialsPositiveAndUnique ==
    /\ \A i \in DOMAIN Index : Index[i].value.serial \in Nat \ {0}
    /\ \A i, j \in DOMAIN Index :
          Index[i].value.serial = Index[j].value.serial => i = j

\* Creates, a delete and an edit: the index after a note was deleted,
\* another one created and saved again by an edit.
C16_Witness ==
    /\ deleted # {}
    /\ last.op = "edit"
    /\ last.updated
    /\ Index # <<>>

\* C17: every key of the persisted index is the name of a file of the
\* working directory.
C17_KeysAreFilesOnDisk ==
    \A i \in DOMAIN Index : Index[i].key \in DOMAIN files

\* A delete run has removed one of two records: both files are on disk and
\* the other record is still in the index.
C17_Witness ==
    /\ last.op = "delete"
    /\ last.filename \in deleted
    /\ Len(Index) = 1
    /\ Cardinality(DOMAIN files) = 2

\* The files of the working directory that hold a note and have no record.
Unrecorded(file, fs) ==
    {f \in DOMAIN fs : f \notin keys(DB_init(file))}

\* C18: a new_note run that starts the editor creates a file, and the file
\* has a record afterwards exactly when the checksum of its text differs
\* from the checksum of the empty text written first; when it does not, the
\* run leaves db.json as it was. A file without a record never gets one, and
\* no lookup by serial, by title or by keyword gives its name.
C18_EditorNoteRecordedIffChanged ==
    [][/\ (last'.op = "new" /\ last'.editor) =>
             LET f == last'.filename
             IN  /\ f \notin DOMAIN files
                 /\ f \in DOMAIN files'
                 /\ f \in keys(DB_init(dbfile')) <=> adler32(files'[f]) # adler32(<<>>)
                 /\ adler32(files'[f]) = adler32(<<>>) => dbfile' = dbfile
       /\ \A f \in Unrecorded(dbfile, files) :
             /\ f \in Unrecorded(dbfile', files')
             /\ \A n \in 0..(MaxTime + 1) :
                   get_filename_and_title_from_serial(dbfile, n).filename # f
             /\ \A title \in LookupTitles : get_filename_from_title(dbfile, title).filename # f
             /\ \A keywords \in SearchLines : f \notin search_found(Index, keywords)]_vars

\* A note left empty by the editor has no record while another note is
\* edited and saved.
C18_Witness ==
    /\ last.op = "edit"
    /\ last.updated
    /\ \E f \in Unrecorded(dbfile, files) :
          /\ f \notin deleted
          /\ files[f] = <<>>
          /\ f # last.filename

\* C19: no step changes the title of a record that stays in the index; the
\* title an edit_note or search_note run writes back is the one the record
\* had; and every record's 'filename' field is its key.
C19_TitleAndFilenameAreKept ==
    [][LET old == DB_init(dbfile)
           idx == DB_init(dbfile')
       IN  /\ \A g \in keys(old) \cap keys(idx) :
                 value_of(idx, g).title = value_of(old, g).title
           /\ (last'.op \in {"edit", "search"} /\ last'.updated /\ last'.exc = "none") =>
                 /\ last'.filename \in keys(old)
                 /\ last'.title = value_of(old, last'.filename).title
                 /\ value_of(idx, last'.filename).title = value_of(old, last'.filename).title
           /\ \A i \in DOMAIN idx : idx[i].value.filename = idx[i].key]_vars

\* An edit saved a note that was listed and selected by its '$serial': its
\* title, 't', is none of the titles typed at the prompt.
C19_Witness ==
    /\ last.op = "edit"
    /\ last.listed
    /\ last.updated
    /\ last.title = <<"t">>
    /\ last.title \notin Answers
    /\ value_of(Index, last.filename).title = <<"t">>

\* A step in which process p ends its writing session.
Exits(p) == procs[p].pc = "ready" /\ procs'[p].pc = "idle"

\* C13: db.json is written only by the exit of a writing session, with the
\* whole mapping the process has in memory; while a session is open (after
\* its load, after its body) it has written nothing; and every run of
\* new_note, of a changed edit and of delete_note that ends has opened
\* db.json for writing exactly once.
C13_OneOverwritePerSession ==
    [][/\ dbfile' # dbfile =>
             \E p \in Procs : /\ Exits(p)
                              /\ procs[p].write
                              /\ dbfile' = [st |-> "ok", db |-> procs[p].db]
       /\ \A p \in Procs :
             /\ procs'[p].pc \in {"loaded", "ready"} => procs'[p].writes = 0
             /\ Exits(p) => /\ procs'[p].writes = 1
                            /\ procs'[p].op \in {"new", "edit", "delete"}
                            /\ dbfile' = [st |-> "ok", db |-> procs[p].db]]_vars

\* Each process has ended a run, one a save and one a delete, each with its
\* one overwrite.
C13_Witness ==
    /\ \A p \in Procs : procs[p].pc = "idle"
    /\ \E p, q \in Procs :
          /\ procs[p] # Idle /\ procs[p].op = "edit" /\ procs[p].writes = 1
          /\ procs[q] # Idle /\ procs[q].op = "delete" /\ procs[q].writes = 1

\* C14: nothing locks db.json and a write merges nothing: when a process
\* ends its session, every record that db.json held and the mapping it
\* loaded and changed lacks is gone from db.json, records another process
\* has persisted in the meantime included.
C14_WriteDropsWhatTheMappingLacks ==
    [][\A p \in Procs :
          Exits(p) => \A f \in keys(DB_init(dbfile)) \ keys(procs[p].db) :
                          f \notin keys(DB_init(dbfile'))]_vars

\* Both processes have ended a new_note run that persisted its record, no
\* note was deleted, and the record one of them persisted is absent from
\* db.json.
C14_Witness ==
    /\ deleted = {}
    /\ \E p, q \in Procs :
          /\ p # q
          /\ procs[p].pc = "idle" /\ procs[p] # Idle
          /\ procs[q].pc = "idle" /\ procs[q] # Idle
          /\ procs[p].op = "new" /\ procs[p].writes = 1 /\ procs[p].exc = "none"
          /\ procs[q].op = "new" /\ procs[q].writes = 1 /\ procs[q].exc = "none"
          /\ procs[p].filename \in keys(procs[p].db)
          /\ procs[p].filename \notin keys(Index)
          /\ procs[q].filename \in keys(Index)

====
